---- MODULE Spec2Model ----
(***************************************************************************)
(* Retrieval subsystem of ai_file_manager: the FAISS-backed VectorDatabase *)
(* (python/vector_db.py), the SQLite DatabaseManager (python/database.py)  *)
(* and the endpoints that join them (controllers/files_controller.py,      *)
(* controllers/search_controller.py).                                      *)
(*                                                                         *)
(* Numbers.  Vectors are tuples of integers.  A normalized vector is kept  *)
(* in fixed point with Unit standing for 1.0, so an inner product of two   *)
(* normalized vectors is a similarity score in units of 1/(Unit*Unit):     *)
(* 100 is 1.0, 70 is 0.7.  The input vectors have integral norms, so the   *)
(* arithmetic is exact (float32 rounding is not modelled).                 *)
(***************************************************************************)
EXTENDS Integers, Sequences, FiniteSets, TLC

VARIABLES
    vdb,      \* the long-lived VectorDatabase instance (in-memory fields)
    disk,     \* per directory: the files faiss_index.bin and metadata.pkl
    files,    \* SQLite table files: the set of file_id rows
    chunks,   \* SQLite table chunks: the set of chunk rows
    ret,      \* what the last operation returned
    tomb,     \* ids deleted on this instance and not added again
    uuids,    \* the file ids uuid4() has handed out
    inflight, \* import_file requests suspended at their await
    added     \* per id: the normalized vector last added on this instance

vars == <<vdb, disk, files, chunks, ret, tomb, uuids, inflight, added>>

----------------------------------------------------------------------------
(* Bounds of the model *)

MaxVectors == 3      \* cap on index.ntotal
MaxBatch == 2        \* longest batch handed to a batch operation
MaxLimit == 2        \* largest limit of a search
MaxChunks == 2       \* most chunks one file is split into
MaxInFlight == 2     \* most import_file requests suspended at once
MaxTextLen == 5      \* longest text handed to the chunker
MaxLength == 3       \* largest max_length of the chunker

(* The dimension the instance is constructed with (384 in the controllers, *)
(* 2 in the specification's scenario).                                     *)
Dimension == 2

(* Fixed-point unit: Unit stands for the float 1.0 of a vector component.  *)
Unit == 10

Ids == {"x", "y"}

(* Vectors handed to add: of the configured dimension and not of norm 1    *)
(* (GoodVecs), or of another dimension (BadVecs).                          *)
GoodVecs == {<<2, 0>>, <<3, 4>>}
BadVecs == {<<1>>}
InputVecs == GoodVecs \cup BadVecs
(* Vectors handed to search. *)
Queries == InputVecs \cup {<<0, 1>>}

Limits == 1..MaxLimit
Thresholds == {50, 70}

Dirs == {"database", "database/vectors"}
VectorsDir == "database/vectors"
RootDir == "database"

----------------------------------------------------------------------------
(* Numeric helpers: numpy / faiss *)

ISqrt(n) == CHOOSE r \in 0..n : r * r <= n /\ n < (r + 1) * (r + 1)

SumSq(v) == LET F[i \in 0..Len(v)] == IF i = 0 THEN 0 ELSE F[i - 1] + v[i] * v[i]
            IN F[Len(v)]

(* faiss.normalize_L2 on one row: divides by the L2 norm; a zero row is    *)
(* left as it is.                                                          *)
normalize_L2(v) ==
    LET norm == ISqrt(SumSq(v))
    IN IF norm = 0 THEN [i \in 1..Len(v) |-> v[i] * Unit]
       ELSE [i \in 1..Len(v) |-> (v[i] * Unit) \div norm]

(* normalize_L2 tabulated over the vectors the model hands in. *)
Normalized == [v \in Queries |-> normalize_L2(v)]

(* Inner product of two stored (normalized) rows. *)
Dot(u, v) == LET F[i \in 0..Len(u)] == IF i = 0 THEN 0 ELSE F[i - 1] + u[i] * v[i]
             IN F[Len(u)]

Min(a, b) == IF a <= b THEN a ELSE b

(* faiss.IndexFlatIP(d): an empty flat inner-product index. *)
IndexFlatIP(d) == [exists |-> TRUE, d |-> d, vectors |-> <<>>]
(* self.index = None *)
NoIndex == [exists |-> FALSE, d |-> 0, vectors |-> <<>>]

ntotal(index) == Len(index.vectors)

(* A directory in which neither file exists yet. *)
EmptyDir == [index_file |-> [exists |-> FALSE, content |-> NoIndex],
             metadata_file |-> [exists |-> FALSE, content |-> <<>>]]

----------------------------------------------------------------------------
(* self.metadata: a dict, kept as the sequence of its items in insertion   *)
(* order; an item is [embedding_id, index_id].                             *)

MetaIds(md) == {md[i].embedding_id : i \in 1..Len(md)}

MetaPos(md, id) == CHOOSE i \in 1..Len(md) : md[i].embedding_id = id

MetaGet(md, id) == md[MetaPos(md, id)]

(* Mutant of MetaSet: an existing key is not replaced, a second item with  *)
(* the id is appended.                                                     *)
MetaSet_AppendsAlways(md, id, slot) ==
    Append(md, [embedding_id |-> id, index_id |-> slot])

(* self.metadata[id] = item: an existing key keeps its place in the dict,  *)
(* a new key goes last.                                                    *)
MetaSet(md, id, slot) ==
    LET item == [embedding_id |-> id, index_id |-> slot]
    IN IF id \in MetaIds(md)
       THEN [md EXCEPT ![MetaPos(md, id)] = item]
       ELSE Append(md, item)

(* del self.metadata[id] *)
MetaDel(md, id) ==
    LET p == MetaPos(md, id)
    IN [i \in 1..(Len(md) - 1) |-> IF i < p THEN md[i] ELSE md[i + 1]]

----------------------------------------------------------------------------
(* VectorDatabase *)

VectorDatabase(path, dimension) ==
    [database_path |-> path, dimension |-> dimension, index |-> NoIndex,
     metadata |-> <<>>, is_loaded |-> FALSE]

load_index(db, dk) ==
    [db EXCEPT !.index = dk[db.database_path].index_file.content]

load_metadata(db, dk) ==
    [db EXCEPT !.metadata = dk[db.database_path].metadata_file.content]

(* initialize: returns the instance and the returned flag *)
initialize(db, dk) ==
    LET d1 == IF dk[db.database_path].index_file.exists
              THEN load_index(db, dk)
              ELSE [db EXCEPT !.index = IndexFlatIP(db.dimension)]
        d2 == IF dk[db.database_path].metadata_file.exists
              THEN load_metadata(d1, dk)
              ELSE d1
    IN [db |-> [d2 EXCEPT !.is_loaded = TRUE], ok |-> TRUE]

save_index(db, dk) ==
    IF db.index.exists
    THEN [dk EXCEPT ![db.database_path].index_file =
                        [exists |-> TRUE, content |-> db.index]]
    ELSE dk

save_metadata(db, dk) ==
    [dk EXCEPT ![db.database_path].metadata_file =
                   [exists |-> TRUE, content |-> db.metadata]]

(* index.add(row): faiss refuses a row whose length is not index.d *)
IndexAdd(index, row) == [index EXCEPT !.vectors = Append(@, row)]

(* Mutant of add_embedding: the dimension is checked after index.add. *)
add_embedding_ChecksAfterAdd(db, dk, embedding_id, embedding) ==
    LET init == IF db.is_loaded THEN [db |-> db, ok |-> TRUE] ELSE initialize(db, dk)
        d0 == init.db
        index == IndexAdd(d0.index, Normalized[embedding])
    IN IF ~init.ok THEN [db |-> d0, ok |-> FALSE]
       ELSE IF Len(embedding) # d0.dimension
            THEN [db |-> [d0 EXCEPT !.index = index], ok |-> FALSE]
       ELSE [db |-> [d0 EXCEPT !.index = index,
                               !.metadata = MetaSet(@, embedding_id, ntotal(index) - 1)],
             ok |-> TRUE]

add_embedding(db, dk, embedding_id, embedding) ==
    LET init == IF db.is_loaded THEN [db |-> db, ok |-> TRUE] ELSE initialize(db, dk)
        d0 == init.db
    IN IF ~init.ok THEN [db |-> d0, ok |-> FALSE]
       ELSE IF Len(embedding) # d0.dimension THEN [db |-> d0, ok |-> FALSE]
       ELSE IF Len(embedding) # d0.index.d THEN [db |-> d0, ok |-> FALSE]
       ELSE LET index == IndexAdd(d0.index, Normalized[embedding])
                current_index == ntotal(index) - 1
            IN [db |-> [d0 EXCEPT !.index = index,
                                  !.metadata = MetaSet(@, embedding_id, current_index)],
                ok |-> TRUE]

RECURSIVE BatchLoop(_, _, _, _, _)
BatchLoop(db, dk, embeddings_data, i, success_count) ==
    IF i > Len(embeddings_data) THEN [db |-> db, success_count |-> success_count]
    ELSE LET data == embeddings_data[i]
             r == add_embedding(db, dk, data.embedding_id, data.embedding)
         IN BatchLoop(r.db, dk, embeddings_data, i + 1,
                      IF r.ok THEN success_count + 1 ELSE success_count)

(* Mutant of add_embeddings_batch: only the index file is written. *)
add_embeddings_batch_SavesIndexOnly(db, dk, embeddings_data) ==
    LET r == BatchLoop(db, dk, embeddings_data, 1, 0)
    IN [db |-> r.db,
        disk |-> IF r.success_count > 0 THEN save_index(r.db, dk) ELSE dk,
        success_count |-> r.success_count]

add_embeddings_batch(db, dk, embeddings_data) ==
    LET r == BatchLoop(db, dk, embeddings_data, 1, 0)
    IN [db |-> r.db,
        disk |-> IF r.success_count > 0
                 THEN save_metadata(r.db, save_index(r.db, dk))
                 ELSE dk,
        success_count |-> r.success_count]

(* index.search(query, k) of a flat index.  Scores(index, query)[s + 1] is *)
(* the inner product of the query with the row in slot s.                  *)
Scores(index, query) == [p \in 1..ntotal(index) |-> Dot(index.vectors[p], query)]

(* The k best slots by inner product, best first; equal scores keep the    *)
(* lower slot first.                                                       *)
FaissSearch(scores, k) ==
    LET Slots == 0..(Len(scores) - 1)
        Beats(j, i) == \/ scores[j + 1] > scores[i + 1]
                       \/ scores[j + 1] = scores[i + 1] /\ j < i
        rank == [i \in Slots |-> Cardinality({j \in Slots : Beats(j, i)})]
    IN [p \in 1..k |-> CHOOSE i \in Slots : rank[i] = p - 1]

(* The first item of self.metadata whose index_id is the slot: its place,  *)
(* or 0 when there is none.                                                *)
MetaFind(md, slot) ==
    LET hits == {i \in 1..Len(md) : md[i].index_id = slot}
    IN IF hits = {} THEN 0 ELSE CHOOSE i \in hits : \A j \in hits : i <= j

(* results.sort(key=similarity_score, reverse=True): a stable sort *)
SortByScore(results) ==
    LET n == Len(results)
        Before(j, i) == \/ results[j].similarity_score > results[i].similarity_score
                        \/ results[j].similarity_score = results[i].similarity_score /\ j < i
        place == [i \in 1..n |-> Cardinality({j \in 1..n : Before(j, i)}) + 1]
    IN [p \in 1..n |-> results[CHOOSE i \in 1..n : place[i] = p]]

(* Mutant of SearchLoop: the loop does not stop at limit results. *)
RECURSIVE SearchLoop_NoBreak(_, _, _, _, _, _, _)
SearchLoop_NoBreak(md, scores, found, similarity_threshold, limit, i, results) ==
    IF i > Len(found) THEN results
    ELSE LET index_id == found[i]
             score == scores[index_id + 1]
             at == MetaFind(md, index_id)
             next == IF score < similarity_threshold \/ at = 0 THEN results
                     ELSE Append(results,
                                 [embedding_id |-> md[at].embedding_id,
                                  similarity_score |-> score,
                                  metadata |-> md[at]])
         IN SearchLoop_NoBreak(md, scores, found, similarity_threshold, limit, i + 1, next)

(* The loop over the slots index.search found. *)
RECURSIVE SearchLoop(_, _, _, _, _, _, _)
SearchLoop(md, scores, found, similarity_threshold, limit, i, results) ==
    IF i > Len(found) THEN results
    ELSE LET index_id == found[i]
             score == scores[index_id + 1]
             at == MetaFind(md, index_id)
             next == IF score < similarity_threshold \/ at = 0 THEN results
                     ELSE Append(results,
                                 [embedding_id |-> md[at].embedding_id,
                                  similarity_score |-> score,
                                  metadata |-> md[at]])
         IN IF score >= similarity_threshold /\ Len(next) >= limit THEN next
            ELSE SearchLoop(md, scores, found, similarity_threshold, limit, i + 1, next)

search_similar(db, query_embedding, limit, similarity_threshold) ==
    IF ~db.is_loaded \/ Len(db.metadata) = 0 \/ ntotal(db.index) = 0 THEN <<>>
    ELSE IF Len(query_embedding) # db.dimension THEN <<>>
    ELSE IF Len(query_embedding) # db.index.d THEN <<>>
    ELSE LET scores == Scores(db.index, Normalized[query_embedding])
             search_k == Min(limit * 2, ntotal(db.index))
         IN IF search_k <= 0 THEN <<>>
            ELSE SortByScore(SearchLoop(db.metadata, scores, FaissSearch(scores, search_k),
                                        similarity_threshold, limit, 1, <<>>))

(* Mutant of delete_embedding: reports success and saves, but the mapping  *)
(* stays in self.metadata.                                                 *)
delete_embedding_KeepsMapping(db, dk, embedding_id) ==
    IF embedding_id \in MetaIds(db.metadata)
    THEN [db |-> db, disk |-> save_metadata(db, dk), ok |-> TRUE]
    ELSE [db |-> db, disk |-> dk, ok |-> FALSE]

(* Mutant of delete_embedding: the delete also rebuilds the index (an      *)
(* empty index, the remaining ids renumbered).                             *)
delete_embedding_Rebuilds(db, dk, embedding_id) ==
    IF embedding_id \in MetaIds(db.metadata)
    THEN LET md == MetaDel(db.metadata, embedding_id)
             d1 == [db EXCEPT !.index = IndexFlatIP(db.dimension),
                              !.metadata = [i \in 1..Len(md) |->
                                               [md[i] EXCEPT !.index_id = i - 1]]]
         IN [db |-> d1, disk |-> save_metadata(d1, dk), ok |-> TRUE]
    ELSE [db |-> db, disk |-> dk, ok |-> FALSE]

delete_embedding(db, dk, embedding_id) ==
    IF embedding_id \in MetaIds(db.metadata)
    THEN LET d1 == [db EXCEPT !.metadata = MetaDel(@, embedding_id)]
         IN [db |-> d1, disk |-> save_metadata(d1, dk), ok |-> TRUE]
    ELSE [db |-> db, disk |-> dk, ok |-> FALSE]

(* dict.get(key): the value, or None when the item has no such key.  The   *)
(* items add_embedding writes for the controllers (metadata {}) have the   *)
(* keys embedding_id and index_id only.                                    *)
MetadataGet(item, key) == IF key \in DOMAIN item THEN item[key] ELSE <<>>

(* The loop of delete_embeddings_by_file over embedding_ids_to_delete *)
RECURSIVE DeleteByFileLoop(_, _, _, _, _)
DeleteByFileLoop(db, dk, embedding_ids_to_delete, i, deleted_count) ==
    IF i > Len(embedding_ids_to_delete)
    THEN [db |-> db, disk |-> dk, deleted_count |-> deleted_count]
    ELSE LET r == delete_embedding(db, dk, embedding_ids_to_delete[i])
         IN DeleteByFileLoop(r.db, r.disk, embedding_ids_to_delete, i + 1,
                             deleted_count + (IF r.ok THEN 1 ELSE 0))

delete_embeddings_by_file(db, dk, file_id) ==
    LET matching == SelectSeq(db.metadata,
                              LAMBDA item : MetadataGet(item, "file_id") = file_id)
        embedding_ids_to_delete == [i \in 1..Len(matching) |-> matching[i].embedding_id]
    IN DeleteByFileLoop(db, dk, embedding_ids_to_delete, 1, 0)

rebuild_index(db, dk) ==
    LET d1 == [db EXCEPT !.index = IndexFlatIP(db.dimension),
                         !.metadata = [i \in 1..Len(@) |-> [@[i] EXCEPT !.index_id = i - 1]]]
    IN [db |-> d1, disk |-> save_metadata(d1, save_index(d1, dk))]

(* The loop of add_embeddings_from_chunks; raised is TRUE when index.add   *)
(* raised, which ends the method without saving.                           *)
RECURSIVE ChunksLoop(_, _, _)
ChunksLoop(db, chunks_with_embeddings, i) ==
    IF i > Len(chunks_with_embeddings) THEN [db |-> db, raised |-> FALSE]
    ELSE LET chunk_data == chunks_with_embeddings[i]
             embedding_id == chunk_data.embedding_id
             embedding == chunk_data.embedding
         IN IF Len(embedding) > 0 /\ embedding_id \in MetaIds(db.metadata)
            THEN IF ~db.index.exists \/ Len(embedding) # db.index.d
                 THEN [db |-> db, raised |-> TRUE]
                 ELSE LET index == IndexAdd(db.index, Normalized[embedding])
                      IN ChunksLoop([db EXCEPT !.index = index,
                                               !.metadata = MetaSet(@, embedding_id,
                                                                    ntotal(index) - 1)],
                                    chunks_with_embeddings, i + 1)
            ELSE ChunksLoop(db, chunks_with_embeddings, i + 1)

add_embeddings_from_chunks(db, dk, chunks_with_embeddings) ==
    LET r == ChunksLoop(db, chunks_with_embeddings, 1)
    IN [db |-> r.db,
        disk |-> IF r.raised THEN dk ELSE save_metadata(r.db, save_index(r.db, dk))]

----------------------------------------------------------------------------
(* The state after construction: an unloaded instance on an empty          *)
(* directory, empty tables.                                                *)

(* Nothing was added on the instance yet: every id has the empty row. *)
NoneAdded == [id \in Ids |-> <<>>]

(* added after a loop over data in which the items at the positions Added  *)
(* reached index.add: for each id the row of its last such item.           *)
LastAdded(last, data, Added) ==
    [id \in Ids |->
        LET ps == {i \in Added : data[i].embedding_id = id}
        IN IF ps = {} THEN last[id]
           ELSE Normalized[data[CHOOSE i \in ps : \A j \in ps : j <= i].embedding]]

Init ==
    /\ vdb = VectorDatabase(VectorsDir, Dimension)
    /\ disk = [d \in Dirs |-> EmptyDir]
    /\ files = {}
    /\ chunks = {}
    /\ ret = [op |-> "init"]
    /\ tomb = {}
    /\ uuids = {}
    /\ inflight = {}
    /\ added = NoneAdded

(* What a batch operation is handed. *)
Items == [embedding_id : Ids, embedding : InputVecs]
Batches == UNION {[1..n -> Items] : n \in 0..MaxBatch}

(* What a caller reads from a result list: the ids with their scores. *)
Hits(results) == [i \in 1..Len(results) |->
                     <<results[i].embedding_id, results[i].similarity_score>>]

(* The instance as initialize() leaves it when it is not loaded yet. *)
Loaded(db, dk) == IF db.is_loaded THEN db ELSE initialize(db, dk).db

(* add_embedding on the instance gets the vector past the length check    *)
(* and index.add.                                                          *)
Accepts(db, dk, embedding) ==
    /\ Len(embedding) = Loaded(db, dk).dimension
    /\ Len(embedding) = Loaded(db, dk).index.d

----------------------------------------------------------------------------
(* Operations on the long-lived instance *)

Initialize ==
    LET r == initialize(vdb, disk)
    IN /\ vdb' = r.db
       /\ ret' = [op |-> "initialize", val |-> r.ok]
       /\ UNCHANGED <<disk, files, chunks, tomb, uuids, inflight, added>>

AddEmbedding(embedding_id, embedding) ==
    LET r == add_embedding(vdb, disk, embedding_id, embedding)
    IN /\ ntotal(r.db.index) <= MaxVectors
       /\ vdb' = r.db
       /\ ret' = [op |-> "add_embedding", val |-> r.ok]
       /\ tomb' = IF r.ok THEN tomb \ {embedding_id} ELSE tomb
       /\ added' = IF r.ok THEN [added EXCEPT ![embedding_id] = Normalized[embedding]]
                   ELSE added
       /\ UNCHANGED <<disk, files, chunks, uuids, inflight>>

AddEmbeddingsBatch(embeddings_data) ==
    LET r == add_embeddings_batch(vdb, disk, embeddings_data)
    IN /\ ntotal(r.db.index) <= MaxVectors
       /\ vdb' = r.db
       /\ disk' = r.disk
       /\ ret' = [op |-> "add_embeddings_batch", n |-> Len(embeddings_data),
                  val |-> r.success_count]
       /\ tomb' = tomb \ {embeddings_data[i].embedding_id : i \in
                             {j \in 1..Len(embeddings_data) :
                                Accepts(vdb, disk, embeddings_data[j].embedding)}}
       /\ added' = LastAdded(added, embeddings_data,
                             {j \in 1..Len(embeddings_data) :
                                Accepts(vdb, disk, embeddings_data[j].embedding)})
       /\ UNCHANGED <<files, chunks, uuids, inflight>>

SearchSimilar(query_embedding, limit, similarity_threshold) ==
    /\ ret' = [op |-> "search_similar",
               val |-> Hits(search_similar(vdb, query_embedding, limit,
                                           similarity_threshold))]
    /\ UNCHANGED <<vdb, disk, files, chunks, tomb, uuids, inflight, added>>

DeleteEmbedding(embedding_id) ==
    LET r == delete_embedding(vdb, disk, embedding_id)
    IN /\ vdb' = r.db
       /\ disk' = r.disk
       /\ ret' = [op |-> "delete_embedding", val |-> r.ok]
       /\ tomb' = IF r.ok THEN tomb \cup {embedding_id} ELSE tomb
       /\ UNCHANGED <<files, chunks, uuids, inflight, added>>

RebuildIndex ==
    LET r == rebuild_index(vdb, disk)
    IN /\ vdb' = r.db
       /\ disk' = r.disk
       /\ ret' = [op |-> "rebuild_index"]
       /\ UNCHANGED <<files, chunks, tomb, uuids, inflight, added>>

AddEmbeddingsFromChunks(chunks_with_embeddings) ==
    LET r == add_embeddings_from_chunks(vdb, disk, chunks_with_embeddings)
    IN /\ ntotal(r.db.index) <= MaxVectors
       /\ vdb' = r.db
       /\ disk' = r.disk
       /\ ret' = [op |-> "add_embeddings_from_chunks"]
       /\ added' = LET Reaches(j) ==
                           /\ Len(chunks_with_embeddings[j].embedding) > 0
                           /\ chunks_with_embeddings[j].embedding_id \in MetaIds(vdb.metadata)
                       Raises(j) ==
                           /\ Reaches(j)
                           /\ \/ ~vdb.index.exists
                              \/ Len(chunks_with_embeddings[j].embedding) # vdb.index.d
                   IN LastAdded(added, chunks_with_embeddings,
                                {j \in 1..Len(chunks_with_embeddings) :
                                   Reaches(j) /\ \A h \in 1..j : ~Raises(h)})
       /\ UNCHANGED <<files, chunks, tomb, uuids, inflight>>

(* A new VectorDatabase object on the same directory (a new process, or    *)
(* the object a controller builds for each request).                       *)
Reopen ==
    /\ vdb' = VectorDatabase(VectorsDir, Dimension)
    /\ ret' = [op |-> "construct"]
    /\ tomb' = {}
    /\ added' = NoneAdded
    /\ UNCHANGED <<disk, files, chunks, uuids, inflight>>

Next ==
    \/ \E id \in Ids, v \in InputVecs : AddEmbedding(id, v)
    \/ \E data \in Batches : AddEmbeddingsBatch(data)
    \/ \E q \in Queries, k \in Limits, t \in Thresholds : SearchSimilar(q, k, t)
    \/ \E id \in Ids : DeleteEmbedding(id)
    \/ RebuildIndex
    \/ \E data \in Batches : AddEmbeddingsFromChunks(data)

Spec == Init /\ [][Next]_vars

(* The store as the controllers use it: embeddings arrive in batches that  *)
(* are persisted, ids are deleted, and a new object on the same directory  *)
(* (a new request or process) is constructed and initialized.              *)
NextStore ==
    \/ \E data \in Batches : AddEmbeddingsBatch(data)
    \/ \E id \in Ids : DeleteEmbedding(id)
    \/ \E q \in Queries, k \in Limits, t \in Thresholds : SearchSimilar(q, k, t)
    \/ Reopen
    \/ Initialize

SpecStore == Init /\ [][NextStore]_vars

(* The dimensions instances are constructed with: the controllers' 384 and *)
(* another value of settings.embedding_dimension.                          *)
Dimensions == {1, Dimension}

(* A new VectorDatabase object on the same directory with a configured     *)
(* dimension (get_vector_db of the chat controller takes it from the       *)
(* settings, the other controllers pass 384).                              *)
Construct(dimension) ==
    /\ vdb' = VectorDatabase(VectorsDir, dimension)
    /\ ret' = [op |-> "construct", dimension |-> dimension]
    /\ tomb' = {}
    /\ added' = NoneAdded
    /\ UNCHANGED <<disk, files, chunks, uuids, inflight>>

NextDimension ==
    \/ \E dimension \in Dimensions : Construct(dimension)
    \/ Initialize
    \/ \E id \in Ids, v \in InputVecs : AddEmbedding(id, v)
    \/ \E data \in Batches : AddEmbeddingsBatch(data)

SpecDimension == Init /\ [][NextDimension]_vars

(* The process dies inside add_embeddings_batch.  The in-memory instance   *)
(* is lost; the files hold what the handler had written when it died.      *)
CrashPoints == {"before_save_index", "before_save_metadata", "after_save_metadata"}

CrashInBatch(embeddings_data, point) ==
    LET r == BatchLoop(vdb, disk, embeddings_data, 1, 0)
        d1 == save_index(r.db, disk)
        d2 == save_metadata(r.db, d1)
        saves == r.success_count > 0
        written == IF ~saves \/ point = "before_save_index" THEN disk
                   ELSE IF point = "before_save_metadata" THEN d1
                   ELSE d2
    IN /\ ntotal(r.db.index) <= MaxVectors
       /\ disk' = written
       /\ vdb' = VectorDatabase(VectorsDir, Dimension)
       /\ tomb' = {}
       /\ added' = NoneAdded
       /\ ret' = [op |-> "crash", point |-> point,
                  old |-> disk[VectorsDir],
                  new |-> IF saves THEN d2[VectorsDir] ELSE disk[VectorsDir]]
       /\ UNCHANGED <<files, chunks, uuids, inflight>>

NextCrash ==
    \/ \E data \in Batches : AddEmbeddingsBatch(data)
    \/ \E id \in Ids : DeleteEmbedding(id)
    \/ \E data \in Batches, point \in CrashPoints : CrashInBatch(data, point)
    \/ Initialize

SpecCrash == Init /\ [][NextCrash]_vars

----------------------------------------------------------------------------
(* DatabaseManager (SQLite).  A row of table files is its file_id; a row   *)
(* of table chunks is [chunk_id, file_id, chunk_index, embedding_id].      *)

FileIds == {"f1", "f2"}

(* What generate_embedding gives for one chunk or query: a vector, or None *)
(* (blank text, or an exception the caller swallows).                      *)
None == <<>>
Embeddings == InputVecs \cup {None}

(* The chunks of a file's content, each stood for by its embedding; an     *)
(* empty content (or auto_process off) is the empty sequence.              *)
Contents == UNION {[1..n -> Embeddings] : n \in 0..MaxChunks}

(* f"{file_id}_chunk_{i}" *)
EmbeddingId(file_id, i) == file_id \o "_chunk_" \o ToString(i)

insert_file(fs, file_id) == fs \cup {file_id}

get_file_by_id(fs, file_id) == file_id \in fs

(* The column processed of the row of a file: import_file writes every row *)
(* with processed = True and nothing updates it.                           *)
Processed(fs, file_id) == file_id \in fs

(* The columns type, category and tags of the row of a file.  They are     *)
(* written once by insert_file, so the model ties them to the file id.     *)
FileData ==
    [f \in FileIds |->
        IF f = "f1" THEN [type |-> "pdf", category |-> "doc", tags |-> {"a"}]
        ELSE [type |-> "txt", category |-> "note", tags |-> {}]]

(* The text of chunk i of a file, a sequence of characters that names the  *)
(* file and the index; chunk 0 is longer than the preview of a context.    *)
ChunkText(file_id, i) ==
    IF i = 0 THEN <<file_id, "#", ToString(i)>> ELSE <<file_id, ToString(i)>>

(* WHERE file_id = ? AND chunk_index = ? *)
get_chunk_by_index(cs, file_id, chunk_index) ==
    {c \in cs : c.file_id = file_id /\ c.chunk_index = chunk_index}

(* The chunk indices whose INSERT may raise an sqlite3 error *)
FailedSets == SUBSET (0..MaxChunks - 1)

(* Every row is inserted on its own: a row whose INSERT raises (a chunk_id *)
(* that exists already, or an sqlite3 error, failed) is logged and skipped, *)
(* the other rows are committed.                                           *)
insert_file_chunks(cs, chunks_data, failed) ==
    cs \cup {c \in chunks_data : /\ \A o \in cs : o.chunk_id # c.chunk_id
                                /\ c.chunk_index \notin failed}

(* ORDER BY chunk_index *)
RECURSIVE OrderByIndex(_)
OrderByIndex(rows) ==
    IF rows = {} THEN <<>>
    ELSE LET first == CHOOSE c \in rows :
                         \A o \in rows : c.chunk_index <= o.chunk_index
         IN <<first>> \o OrderByIndex(rows \ {first})

get_chunks_by_file_id(cs, file_id) ==
    OrderByIndex({c \in cs : c.file_id = file_id})

get_chunk_by_embedding_id(cs, embedding_id) ==
    {c \in cs : c.embedding_id = embedding_id}

(* Both DELETEs and the commit in one transaction; an sqlite3 error        *)
(* (raises) rolls back and gives False.                                    *)
delete_file(fs, cs, file_id, raises) ==
    IF raises THEN [files |-> fs, chunks |-> cs, ok |-> FALSE]
    ELSE [files |-> fs \ {file_id},
          chunks |-> {c \in cs : c.file_id # file_id},
          ok |-> file_id \in fs]

----------------------------------------------------------------------------
(* controllers/files_controller.py *)

(* The embeddings_data of process_file_embeddings: the chunks whose        *)
(* embedding is not None, in order.                                        *)
RECURSIVE EmbeddingsData(_, _, _)
EmbeddingsData(file_id, content, i) ==
    IF i > Len(content) THEN <<>>
    ELSE (IF content[i] = None THEN <<>>
          ELSE <<[embedding_id |-> EmbeddingId(file_id, i - 1),
                  embedding |-> content[i]]>>)
         \o EmbeddingsData(file_id, content, i + 1)

ChunksData(file_id, content) ==
    {[chunk_id |-> EmbeddingId(file_id, i - 1), file_id |-> file_id,
      chunk_index |-> i - 1, embedding_id |-> EmbeddingId(file_id, i - 1),
      content |-> ChunkText(file_id, i - 1)]
        : i \in 1..Len(content)}

(* Mutant of process_file_embeddings: the batch is added to an empty       *)
(* instance instead of the one loaded from the files.                      *)
process_file_embeddings_IgnoresStore(dk, cs, file_id, content, failed) ==
    LET vector_db == [VectorDatabase(VectorsDir, Dimension) EXCEPT
                         !.index = IndexFlatIP(Dimension), !.is_loaded = TRUE]
        embeddings_data == EmbeddingsData(file_id, content, 1)
        r == add_embeddings_batch(vector_db, dk, embeddings_data)
    IN IF content = <<>> THEN [disk |-> dk, chunks |-> cs]
       ELSE [disk |-> IF embeddings_data # <<>> THEN r.disk ELSE dk,
             chunks |-> insert_file_chunks(cs, ChunksData(file_id, content), failed)]

(* process_file_embeddings: a VectorDatabase of its own on                 *)
(* database_path/vectors, one batch add, then the chunk rows of ALL chunks. *)
process_file_embeddings(dk, cs, file_id, content, failed) ==
    LET vector_db == initialize(VectorDatabase(VectorsDir, Dimension), dk)
        embeddings_data == EmbeddingsData(file_id, content, 1)
        r == add_embeddings_batch(vector_db.db, dk, embeddings_data)
    IN IF ~vector_db.ok \/ content = <<>> THEN [disk |-> dk, chunks |-> cs]
       ELSE [disk |-> IF embeddings_data # <<>> THEN r.disk ELSE dk,
             chunks |-> insert_file_chunks(cs, ChunksData(file_id, content), failed)]

(* import_file: a fresh uuid4 file id; a failed insert_file is logged and  *)
(* the import goes on.                                                     *)
import_file(file_id, content, insert_raises, failed) ==
    LET r == process_file_embeddings(disk, chunks, file_id, content, failed)
    IN /\ file_id \notin uuids
       /\ ntotal(r.disk[VectorsDir].index_file.content) <= MaxVectors
       /\ uuids' = uuids \cup {file_id}
       /\ files' = IF insert_raises THEN files ELSE insert_file(files, file_id)
       /\ disk' = r.disk
       /\ chunks' = r.chunks
       /\ ret' = [op |-> "import_file", file_id |-> file_id, success |-> TRUE]
       /\ UNCHANGED <<vdb, tomb, added>>

(* An import_file request served without suspension *)
ImportFile(file_id, content, insert_raises, failed) ==
    /\ import_file(file_id, content, insert_raises, failed)
    /\ UNCHANGED inflight

(* The loop of the delete_file endpoint over the file's chunks *)
RECURSIVE DeleteLoop(_, _, _, _, _)
DeleteLoop(db, dk, rows, i, deleted_embeddings) ==
    IF i > Len(rows)
    THEN [disk |-> dk, deleted_embeddings |-> deleted_embeddings]
    ELSE LET r == delete_embedding(db, dk, rows[i].embedding_id)
         IN DeleteLoop(r.db, r.disk, rows, i + 1,
                       deleted_embeddings + (IF r.ok THEN 1 ELSE 0))

(* The delete_file endpoint: its VectorDatabase is built on database_path  *)
(* itself and is never initialized.                                        *)
DeleteFileEndpoint(file_id, raises) ==
    LET vector_db_manager == VectorDatabase(RootDir, Dimension)
        rows == get_chunks_by_file_id(chunks, file_id)
        l == DeleteLoop(vector_db_manager, disk, rows, 1, 0)
        d == delete_file(files, chunks, file_id, raises)
    IN IF ~get_file_by_id(files, file_id)
       THEN /\ ret' = [op |-> "delete_file", file_id |-> file_id,
                       success |-> FALSE, status |-> 404]
            /\ UNCHANGED <<vdb, disk, files, chunks, tomb, uuids, inflight, added>>
       ELSE /\ disk' = l.disk
            /\ files' = d.files
            /\ chunks' = d.chunks
            /\ ret' = [op |-> "delete_file", file_id |-> file_id,
                       success |-> d.ok, status |-> 200,
                       deleted_chunks_count |-> l.deleted_embeddings]
            /\ UNCHANGED <<vdb, tomb, uuids, inflight, added>>

(* delete_embeddings_by_file on an instance initialized on the directory   *)
(* process_file_embeddings writes to.                                      *)
DeleteEmbeddingsByFile(file_id) ==
    LET vector_db == initialize(VectorDatabase(VectorsDir, Dimension), disk).db
        r == delete_embeddings_by_file(vector_db, disk, file_id)
    IN /\ disk' = r.disk
       /\ ret' = [op |-> "delete_embeddings_by_file", file_id |-> file_id,
                  val |-> r.deleted_count]
       /\ UNCHANGED <<vdb, files, chunks, tomb, uuids, inflight, added>>

(* DatabaseManager.delete_file called on its own *)
DbDeleteFile(file_id, raises) ==
    LET d == delete_file(files, chunks, file_id, raises)
    IN /\ files' = d.files
       /\ chunks' = d.chunks
       /\ ret' = [op |-> "db_delete_file", file_id |-> file_id, val |-> d.ok]
       /\ UNCHANGED <<vdb, disk, tomb, uuids, inflight, added>>

----------------------------------------------------------------------------
(* controllers/search_controller.py *)

(* The filters of a request; an empty set is a filter that was not         *)
(* supplied.                                                               *)
NoFilters == [file_types |-> {}, categories |-> {}, tags |-> {}]
Filters ==
    {NoFilters,
     [file_types |-> {"pdf"}, categories |-> {}, tags |-> {}],
     [file_types |-> {}, categories |-> {"note"}, tags |-> {}],
     [file_types |-> {}, categories |-> {}, tags |-> {"a", "b"}]}

(* The three filter tests on the row of the file *)
PassesFilters(file_data, filters) ==
    /\ filters.file_types # {} => file_data.type \in filters.file_types
    /\ filters.categories # {} => file_data.category \in filters.categories
    /\ filters.tags # {} => filters.tags \cap file_data.tags # {}

(* The length of the preview of a neighbouring chunk (200 characters) *)
PreviewLen == 2

(* content[:200] + "..." if len(content) > 200 else content *)
Preview(content) ==
    IF Len(content) > PreviewLen
    THEN SubSeq(content, 1, PreviewLen) \o <<".", ".", ".">>
    ELSE content

(* Mutant of Context: the next chunk is looked up in every file. *)
Context_AnyFile(cs, chunk_data) ==
    LET chunk_index == chunk_data.chunk_index
        prev == get_chunk_by_index(cs, chunk_data.file_id, chunk_index - 1)
        next == {c \in cs : c.chunk_index = chunk_index + 1}
    IN [prev_chunk |-> IF chunk_index > 0 /\ prev # {}
                       THEN <<Preview((CHOOSE c \in prev : TRUE).content)>>
                       ELSE <<>>,
        next_chunk |-> IF next # {}
                       THEN <<Preview((CHOOSE c \in next : TRUE).content)>>
                       ELSE <<>>]

(* The context of a result: a key that is present is a one-element         *)
(* sequence holding the preview, a key that is absent is <<>>.             *)
Context(cs, chunk_data) ==
    LET chunk_index == chunk_data.chunk_index
        prev == get_chunk_by_index(cs, chunk_data.file_id, chunk_index - 1)
        next == get_chunk_by_index(cs, chunk_data.file_id, chunk_index + 1)
    IN [prev_chunk |-> IF chunk_index > 0 /\ prev # {}
                       THEN <<Preview((CHOOSE c \in prev : TRUE).content)>>
                       ELSE <<>>,
        next_chunk |-> IF next # {}
                       THEN <<Preview((CHOOSE c \in next : TRUE).content)>>
                       ELSE <<>>]

(* Mutant of JoinLoop: a candidate whose file row is missing is kept. *)
RECURSIVE JoinLoop_KeepsOrphans(_, _, _, _, _, _, _)
JoinLoop_KeepsOrphans(fs, cs, similar_results, limit, i, filters, raising) ==
    IF i > Min(limit, Len(similar_results)) THEN <<>>
    ELSE LET found == get_chunk_by_embedding_id(cs, similar_results[i].embedding_id)
             chunk_data == CHOOSE c \in found : TRUE
         IN (IF i \in raising \/ found = {}
             THEN <<>>
             ELSE <<[chunk_id |-> chunk_data.chunk_id,
                     file_id |-> chunk_data.file_id,
                     chunk_index |-> chunk_data.chunk_index,
                     similarity_score |-> similar_results[i].similarity_score,
                     context |-> Context(cs, chunk_data)]>>)
            \o JoinLoop_KeepsOrphans(fs, cs, similar_results, limit, i + 1, filters,
                                     raising)

(* The loop over similar_results[:limit]: a candidate without chunk row or *)
(* file row, or whose file fails a filter, is skipped; so is a candidate   *)
(* whose processing raises (its position is in raising).                   *)
RECURSIVE JoinLoop(_, _, _, _, _, _, _)
JoinLoop(fs, cs, similar_results, limit, i, filters, raising) ==
    IF i > Min(limit, Len(similar_results)) THEN <<>>
    ELSE LET found == get_chunk_by_embedding_id(cs, similar_results[i].embedding_id)
             chunk_data == CHOOSE c \in found : TRUE
         IN (IF \/ i \in raising
                \/ found = {}
                \/ ~get_file_by_id(fs, chunk_data.file_id)
                \/ ~PassesFilters(FileData[chunk_data.file_id], filters)
             THEN <<>>
             ELSE <<[chunk_id |-> chunk_data.chunk_id,
                     file_id |-> chunk_data.file_id,
                     chunk_index |-> chunk_data.chunk_index,
                     similarity_score |-> similar_results[i].similarity_score,
                     context |-> Context(cs, chunk_data)]>>)
            \o JoinLoop(fs, cs, similar_results, limit, i + 1, filters, raising)

(* Mutant of semantic_search: the generated embedding is not checked. *)
semantic_search_NoEmbeddingCheck(dk, fs, cs, query_embedding, raises, limit, similarity_threshold, filters, raising) ==
    LET vector_db == initialize(VectorDatabase(VectorsDir, Dimension), dk)
        similar_results == search_similar(vector_db.db, query_embedding,
                                          limit * 2, similarity_threshold)
    IN IF raises
       THEN [success |-> FALSE, error_code |-> "INTERNAL_ERROR", results |-> <<>>]
       ELSE IF ~vector_db.ok
       THEN [success |-> FALSE, error_code |-> "VECTOR_DB_INIT_FAILED",
             results |-> <<>>]
       ELSE [success |-> TRUE, error_code |-> "",
             results |-> JoinLoop(fs, cs, similar_results, limit, 1, filters, raising)]

(* semantic_search; query_embedding is what generate_embedding gave for    *)
(* the query, raises that it raised.                                       *)
semantic_search(dk, fs, cs, query_embedding, raises, limit, similarity_threshold, filters, raising) ==
    LET vector_db == initialize(VectorDatabase(VectorsDir, Dimension), dk)
        similar_results == search_similar(vector_db.db, query_embedding,
                                          limit * 2, similarity_threshold)
    IN IF raises
       THEN [success |-> FALSE, error_code |-> "INTERNAL_ERROR", results |-> <<>>]
       ELSE IF query_embedding = None
       THEN [success |-> FALSE, error_code |-> "EMBEDDING_GENERATION_FAILED",
             results |-> <<>>]
       ELSE IF ~vector_db.ok
       THEN [success |-> FALSE, error_code |-> "VECTOR_DB_INIT_FAILED",
             results |-> <<>>]
       ELSE [success |-> TRUE, error_code |-> "",
             results |-> JoinLoop(fs, cs, similar_results, limit, 1, filters, raising)]

SemanticSearch(query_embedding, raises, limit, similarity_threshold, filters, raising) ==
    /\ ret' = [op |-> "semantic_search",
               query_dimension |-> Len(query_embedding),
               response |-> semantic_search(disk, files, chunks, query_embedding,
                                            raises, limit, similarity_threshold,
                                            filters, raising)]
    /\ UNCHANGED <<vdb, disk, files, chunks, tomb, uuids, inflight, added>>

NextApp ==
    \/ \E f \in FileIds, c \in Contents, raises \in BOOLEAN, failed \in FailedSets :
          ImportFile(f, c, raises, failed)
    \/ \E f \in FileIds, raises \in BOOLEAN : DeleteFileEndpoint(f, raises)
    \/ \E f \in FileIds, raises \in BOOLEAN : DbDeleteFile(f, raises)
    \/ \E f \in FileIds : DeleteEmbeddingsByFile(f)
    \/ \E q \in Queries \cup {None}, raises \in BOOLEAN, k \in Limits, t \in Thresholds :
          SemanticSearch(q, raises, k, t, NoFilters, {})

SpecApp == Init /\ [][NextApp]_vars

(* Resuming an ingestion.  The content of the file with an id is fixed:    *)
(* one chunk that embeds, or a chunk that embeds and one that does not.    *)
FileContent ==
    [f \in FileIds |-> IF f = "f1" THEN << <<2, 0>> >> ELSE << <<3, 4>>, None >>]

(* process_file_embeddings abandoned at a point: the batch is added in     *)
(* memory, the files hold what was written up to the point, and no chunk   *)
(* row is written (the rows are committed last).                           *)
abandon_process_file_embeddings(dk, file_id, content, point) ==
    LET vector_db == initialize(VectorDatabase(VectorsDir, Dimension), dk)
        embeddings_data == EmbeddingsData(file_id, content, 1)
        r == BatchLoop(vector_db.db, dk, embeddings_data, 1, 0)
        d1 == save_index(r.db, dk)
        d2 == save_metadata(r.db, d1)
    IN IF r.success_count = 0 \/ point = "before_save_index" THEN dk
       ELSE IF point = "before_save_metadata" THEN d1
       ELSE d2

(* A run of process_file_embeddings for the file id, first or repeated *)
ProcessFileEmbeddings(file_id) ==
    LET r == process_file_embeddings(disk, chunks, file_id, FileContent[file_id], {})
    IN /\ ntotal(r.disk[VectorsDir].index_file.content) <= MaxVectors
       /\ disk' = r.disk
       /\ chunks' = r.chunks
       /\ uuids' = uuids \cup {file_id}
       /\ ret' = [op |-> "process_file_embeddings", file_id |-> file_id]
       /\ UNCHANGED <<vdb, files, tomb, inflight, added>>

(* A run of process_file_embeddings that is abandoned *)
AbandonProcess(file_id, point) ==
    LET d == abandon_process_file_embeddings(disk, file_id, FileContent[file_id], point)
    IN /\ ntotal(d[VectorsDir].index_file.content) <= MaxVectors
       /\ disk' = d
       /\ uuids' = uuids \cup {file_id}
       /\ ret' = [op |-> "abandoned", file_id |-> file_id, point |-> point]
       /\ UNCHANGED <<vdb, files, chunks, tomb, inflight, added>>

NextResume ==
    \/ \E f \in FileIds : ProcessFileEmbeddings(f)
    \/ \E f \in FileIds, point \in CrashPoints : AbandonProcess(f, point)

SpecResume == Init /\ [][NextResume]_vars

(* Searching what was imported: files that embed, imports in which the     *)
(* file row or a chunk row is not written, and requests with filters.  A   *)
(* request that fails before Joining is made without filters.              *)
EmbeddedContents ==
    {c \in Contents : Len(c) >= 1 /\ \A i \in 1..Len(c) : c[i] \in GoodVecs}

(* The query embeddings of the configured dimension *)
SearchQueries == {q \in Queries : Len(q) = Dimension}

(* The positions in similar_results whose processing raises *)
RaisingSets == {{}, {1}}

NextSearch ==
    \/ \E f \in FileIds, c \in EmbeddedContents, raises \in BOOLEAN,
          failed \in FailedSets : ImportFile(f, c, raises, failed)
    \/ \E q \in Queries \cup {None}, raises \in BOOLEAN, k \in Limits, t \in Thresholds,
          filters \in Filters, raising \in RaisingSets :
          /\ (raises \/ q \notin SearchQueries) => (filters = NoFilters /\ raising = {})
          /\ SemanticSearch(q, raises, k, t, filters, raising)

SpecSearch == Init /\ [][NextSearch]_vars

----------------------------------------------------------------------------
(* Concurrent requests on the server's event loop.  Every endpoint is an   *)
(* async def whose body blocks; a request gives way to others only at an   *)
(* await.  import_file awaits the category suggestion before it creates    *)
(* the file id and touches either store; delete_file never awaits.         *)

(* The contents of the requests that are suspended: at least one chunk,    *)
(* each with an embedding or without one.                                  *)
RequestContents ==
    {c \in Contents : Len(c) >= 1 /\ \A i \in 1..Len(c) : c[i] \in {<<3, 4>>, None}}

AcceptImport(content) ==
    /\ content \notin inflight
    /\ Cardinality(inflight) < MaxInFlight
    /\ inflight' = inflight \cup {content}
    /\ ret' = [op |-> "await suggest_category_with_llm"]
    /\ UNCHANGED <<vdb, disk, files, chunks, tomb, uuids, added>>

ResumeImport(content, file_id, insert_raises, failed) ==
    /\ content \in inflight
    /\ inflight' = inflight \ {content}
    /\ import_file(file_id, content, insert_raises, failed)

NextAsync ==
    \/ \E c \in RequestContents : AcceptImport(c)
    \/ \E c \in RequestContents, f \in FileIds, raises \in BOOLEAN, failed \in FailedSets :
          ResumeImport(c, f, raises, failed)
    \/ \E f \in FileIds, raises \in BOOLEAN : DeleteFileEndpoint(f, raises)

SpecAsync == Init /\ [][NextAsync]_vars

----------------------------------------------------------------------------
(* The chunker, split_text_into_chunks_improved.  A text is a sequence of  *)
(* characters; len is Len.                                                 *)

Whitespace == {" ", "\n"}
(* "." stands for the full-width sentence endings of the list, "\n" is in *)
(* it as it is.                                                          *)
sentence_endings == {".", "\n"}
Chars == {"a", "."} \cup Whitespace

Texts == UNION {[1..n -> Chars] : n \in 0..MaxTextLen}
MaxLengths == 1..MaxLength

RECURSIVE lstrip(_)
lstrip(str) ==
    IF str = <<>> THEN str
    ELSE IF Head(str) \in Whitespace THEN lstrip(Tail(str))
    ELSE str

RECURSIVE rstrip(_)
rstrip(str) ==
    IF str = <<>> THEN str
    ELSE IF str[Len(str)] \in Whitespace THEN rstrip(SubSeq(str, 1, Len(str) - 1))
    ELSE str

(* str.strip() *)
strip(str) == rstrip(lstrip(str))

(* Mutant of SentenceLoop: what follows the last sentence ending is left   *)
(* out.                                                                    *)
RECURSIVE SentenceLoop_DropsRemainder(_, _, _, _)
SentenceLoop_DropsRemainder(text, i, current_sentence, sentences) ==
    IF i > Len(text) THEN sentences
    ELSE LET cur == Append(current_sentence, text[i])
         IN IF text[i] \in sentence_endings
            THEN SentenceLoop_DropsRemainder(text, i + 1, <<>>, Append(sentences, strip(cur)))
            ELSE SentenceLoop_DropsRemainder(text, i + 1, cur, sentences)

(* The loop over the characters, and the remainder after it *)
RECURSIVE SentenceLoop(_, _, _, _)
SentenceLoop(text, i, current_sentence, sentences) ==
    IF i > Len(text)
    THEN IF strip(current_sentence) # <<>>
         THEN Append(sentences, strip(current_sentence))
         ELSE sentences
    ELSE LET cur == Append(current_sentence, text[i])
         IN IF text[i] \in sentence_endings
            THEN SentenceLoop(text, i + 1, <<>>, Append(sentences, strip(cur)))
            ELSE SentenceLoop(text, i + 1, cur, sentences)

(* Mutant of MergeLoop: sentences are merged whatever their length. *)
RECURSIVE MergeLoop_NoLengthCheck(_, _, _, _, _)
MergeLoop_NoLengthCheck(sentences, i, current_chunk, chunks_, max_length) ==
    IF i > Len(sentences)
    THEN IF current_chunk # <<>> THEN Append(chunks_, strip(current_chunk)) ELSE chunks_
    ELSE MergeLoop_NoLengthCheck(sentences, i + 1, current_chunk \o sentences[i],
                                 chunks_, max_length)

(* The loop that merges sentences into chunks, and the last chunk *)
RECURSIVE MergeLoop(_, _, _, _, _)
MergeLoop(sentences, i, current_chunk, chunks_, max_length) ==
    IF i > Len(sentences)
    THEN IF current_chunk # <<>> THEN Append(chunks_, strip(current_chunk)) ELSE chunks_
    ELSE LET sentence == sentences[i]
         IN IF Len(current_chunk) + Len(sentence) <= max_length
            THEN MergeLoop(sentences, i + 1, current_chunk \o sentence, chunks_, max_length)
            ELSE MergeLoop(sentences, i + 1, sentence,
                           IF current_chunk # <<>>
                           THEN Append(chunks_, strip(current_chunk))
                           ELSE chunks_,
                           max_length)

split_text_into_chunks_improved(text, max_length) ==
    IF text = <<>> THEN <<>>
    ELSE IF Len(text) <= max_length THEN <<text>>
    ELSE SelectSeq(MergeLoop(SentenceLoop(text, 1, <<>>, <<>>), 1, <<>>, <<>>, max_length),
                   LAMBDA chunk : chunk # <<>>)

(* A call of the chunker: the text and max_length it is handed, then what  *)
(* it returns.                                                             *)
InitChunker ==
    /\ vdb = VectorDatabase(VectorsDir, Dimension)
    /\ disk = [d \in Dirs |-> EmptyDir]
    /\ files = {}
    /\ chunks = {}
    /\ tomb = {}
    /\ uuids = {}
    /\ inflight = {}
    /\ added = NoneAdded
    /\ \E text \in Texts, max_length \in MaxLengths :
          ret = [op |-> "call", text |-> text, max_length |-> max_length]

SplitText ==
    /\ ret.op = "call"
    /\ ret' = [op |-> "split_text_into_chunks_improved", text |-> ret.text,
               max_length |-> ret.max_length,
               chunks |-> split_text_into_chunks_improved(ret.text, ret.max_length)]
    /\ UNCHANGED <<vdb, disk, files, chunks, tomb, uuids, inflight, added>>

NextChunker == SplitText

SpecChunker == InitChunker /\ [][NextChunker]_vars

----------------------------------------------------------------------------
(* Vocabulary of the properties *)

(* The ids search_similar returns. *)
ResultIds(results) == {results[i].embedding_id : i \in 1..Len(results)}

(* The slots no live id is mapped to: logically deleted or overwritten. *)
DeadSlots(db) == {s \in 0..(ntotal(db.index) - 1) : MetaFind(db.metadata, s) = 0}

(* The items of a batch whose vector has the configured dimension. *)
GoodItems(data) == {i \in 1..Len(data) : Len(data[i].embedding) = Dimension}

----------------------------------------------------------------------------
(* C1: on one instance, an id whose delete_embedding returned True and     *)
(* that was not added again is never in a result of search_similar, for    *)
(* any query, limit and threshold, although its vector is still in the     *)
(* index.                                                                  *)
C1_DeletedNeverReturned ==
    \A id \in tomb, q \in Queries, k \in Limits, t \in Thresholds :
        id \notin ResultIds(search_similar(vdb, q, k, t))

(* A search answered something while a deleted id's vector was still in    *)
(* the index.                                                              *)
C1_Witness ==
    /\ tomb # {}
    /\ DeadSlots(vdb) # {}
    /\ ret.op = "search_similar"
    /\ Len(ret.val) > 0

----------------------------------------------------------------------------
(* C9: for every index state, query, limit k and threshold, search_similar *)
(* returns at most k results, each with a score >= threshold and a live    *)
(* id, no id twice, in order of non-increasing score.                      *)
C9_ResultShape ==
    \A q \in Queries, k \in Limits, t \in Thresholds :
        LET res == search_similar(vdb, q, k, t)
        IN /\ Len(res) <= k
           /\ \A i \in 1..Len(res) :
                 /\ res[i].similarity_score >= t
                 /\ res[i].embedding_id \in MetaIds(vdb.metadata)
           /\ \A i, j \in 1..Len(res) :
                 i < j => /\ res[i].embedding_id # res[j].embedding_id
                          /\ res[i].similarity_score >= res[j].similarity_score

(* A search returned two results of different scores from an index that    *)
(* also holds a dead slot.                                                 *)
C9_Witness ==
    /\ ret.op = "search_similar"
    /\ Len(ret.val) = 2
    /\ ret.val[1][2] > ret.val[2][2]
    /\ DeadSlots(vdb) # {}

----------------------------------------------------------------------------
(* Every live id has a slot of its own that holds a vector. *)
SlotsValid(db) ==
    /\ \A i \in 1..Len(db.metadata) : db.metadata[i].index_id < ntotal(db.index)
    /\ \A i, j \in 1..Len(db.metadata) :
          i # j => db.metadata[i].index_id # db.metadata[j].index_id

(* The live ids whose vector scores at least t against the query. *)
Qualifying(db, q, t) ==
    {i \in 1..Len(db.metadata) :
        Scores(db.index, Normalized[q])[db.metadata[i].index_id + 1] >= t}

(* C10: search compares the query with every live vector: in a loaded      *)
(* instance whose live ids each have a slot of their own, if at most k     *)
(* live ids score >= threshold, search_similar(query, k, threshold)        *)
(* returns exactly those ids, each with its score.                         *)
C10_FindsEveryLiveMatch ==
    \A q \in GoodVecs \cup {<<0, 1>>}, k \in Limits, t \in Thresholds :
        (vdb.is_loaded /\ SlotsValid(vdb)
           /\ Cardinality(Qualifying(vdb, q, t)) <= k)
        => {<<r[1], r[2]>> : r \in
               {Hits(search_similar(vdb, q, k, t))[i] : i \in
                   1..Len(search_similar(vdb, q, k, t))}}
           = {<<vdb.metadata[i].embedding_id,
                Scores(vdb.index, Normalized[q])[vdb.metadata[i].index_id + 1]>> :
                 i \in Qualifying(vdb, q, t)}

----------------------------------------------------------------------------
(* C6: add_embedding(id, v) fails whenever id has a live mapping and then  *)
(* leaves the index and the id-to-slot map as they were.                   *)
C6_DuplicateIdRejected ==
    \A id \in MetaIds(vdb.metadata), v \in GoodVecs :
        LET r == add_embedding(vdb, disk, id, v)
        IN ~r.ok /\ r.db.index = vdb.index /\ r.db.metadata = vdb.metadata

----------------------------------------------------------------------------
(* C5: no two live ids have the same slot, and the slot of an id that      *)
(* stays live changes only in a rebuild (rebuild_index or                  *)
(* add_embeddings_from_chunks).                                            *)
UniqueSlots(db) ==
    \A i, j \in 1..Len(db.metadata) :
        i # j => db.metadata[i].index_id # db.metadata[j].index_id

SlotOf(db, id) == MetaGet(db.metadata, id).index_id

C5_SlotsUniqueAndStable ==
    [][/\ UniqueSlots(vdb')
       /\ \A id \in MetaIds(vdb.metadata) \cap MetaIds(vdb'.metadata) :
             SlotOf(vdb', id) # SlotOf(vdb, id)
             => ret'.op \in {"rebuild_index", "add_embeddings_from_chunks"}]_vars

----------------------------------------------------------------------------
(* What a rebuild may be handed: live entries, each id once, each with a   *)
(* vector of the configured dimension.                                     *)
LiveEntries(db) ==
    {e \in Batches :
        /\ \A i \in 1..Len(e) : /\ e[i].embedding_id \in MetaIds(db.metadata)
                                 /\ e[i].embedding \in GoodVecs
        /\ \A i, j \in 1..Len(e) : i # j => e[i].embedding_id # e[j].embedding_id}

(* rebuild_index() followed by add_embeddings_from_chunks(entries) *)
Rebuilt(db, dk, entries) ==
    LET r == rebuild_index(db, dk)
    IN add_embeddings_from_chunks(r.db, r.disk, entries).db

(* C4: after rebuild_index followed by add_embeddings_from_chunks(entries) *)
(* for live entries, search_similar returns only ids of entries, and the   *)
(* number of live ids, index.ntotal and the number of entries are equal.   *)
C4_RebuildFromEntries ==
    \A entries \in LiveEntries(vdb) :
        LET db == Rebuilt(vdb, disk, entries)
        IN /\ Len(db.metadata) = Len(entries)
           /\ ntotal(db.index) = Len(entries)
           /\ \A q \in Queries, k \in Limits, t \in Thresholds :
                 ResultIds(search_similar(db, q, k, t))
                    \subseteq {entries[i].embedding_id : i \in 1..Len(entries)}

----------------------------------------------------------------------------
(* C7: add_embedding with a vector of another dimension returns False and  *)
(* leaves the index, the id-to-slot map and the files as they are (the     *)
(* instance is at most loaded); in add_embeddings_batch the vectors after  *)
(* such a vector are still added.                                          *)
C7_DimensionMismatchNoMutation ==
    /\ \A id \in Ids, v \in BadVecs :
          add_embedding(vdb, disk, id, v) = [db |-> Loaded(vdb, disk), ok |-> FALSE]
    /\ \A data \in Batches :
          LET r == add_embeddings_batch(vdb, disk, data)
              base == IF data = <<>> THEN vdb ELSE Loaded(vdb, disk)
              good == GoodItems(data)
          IN /\ r.success_count = Cardinality(good)
             /\ ntotal(r.db.index) = ntotal(base.index) + Cardinality(good)
             /\ \A i \in good : data[i].embedding_id \in MetaIds(r.db.metadata)
             /\ good = {} => r.db = base /\ r.disk = disk

(* A batch of two in which only one vector was added, and a single add     *)
(* that failed on an index that holds vectors.                             *)
C7_Witness ==
    \/ /\ ret.op = "add_embeddings_batch"
       /\ ret.n = 2
       /\ ret.val = 1
    \/ /\ ret.op = "add_embedding"
       /\ ~ret.val
       /\ ntotal(vdb.index) > 0

----------------------------------------------------------------------------
(* C2: after the delete_file endpoint reports success for file F, no       *)
(* embedding id F_chunk_i has a live id-to-slot mapping in the persisted   *)
(* vector store under database_path/vectors.                               *)
PersistedIds(dk) == MetaIds(dk[VectorsDir].metadata_file.content)

C2_DeleteFileCascades ==
    (ret.op = "delete_file" /\ ret.success)
    => \A i \in 0..(MaxChunks - 1) :
          EmbeddingId(ret.file_id, i) \notin PersistedIds(disk)

(* C3: DatabaseManager.delete_file(file_id) is all-or-nothing: either it   *)
(* returned True and no file row and no chunk row of file_id remains, or   *)
(* it returned False and every row that existed before still exists.       *)
C3_DeleteFileAllOrNothing ==
    [][ret'.op = "db_delete_file"
       => \/ /\ ret'.val
             /\ ~get_file_by_id(files', ret'.file_id)
             /\ get_chunks_by_file_id(chunks', ret'.file_id) = <<>>
          \/ /\ ~ret'.val
             /\ files' = files
             /\ chunks' = chunks]_vars

(* C8: a query whose length differs from the configured dimension is never *)
(* reported as a successful empty result by semantic_search (here: over a  *)
(* store that holds embeddings).                                           *)
C8_QueryDimensionMismatchIsError ==
    (/\ ret.op = "semantic_search"
     /\ ret.query_dimension \notin {0, Dimension}
     /\ PersistedIds(disk) # {})
    => ~(ret.response.success /\ ret.response.results = <<>>)

----------------------------------------------------------------------------
(* C11: self-similarity.  In every reachable state, after a successful     *)
(* add_embedding(id, v), search_similar(v, k, threshold) with k >= 1 and   *)
(* threshold <= 1.0 returns id as the first result or with the first       *)
(* result's score; only k live ids that all tie with it may crowd it out.  *)
TopOrTied(results, id, limit) ==
    /\ results # <<>>
    /\ \/ \E i \in 1..Len(results) :
             /\ results[i].embedding_id = id
             /\ results[i].similarity_score = results[1].similarity_score
       \/ /\ Len(results) = limit
          /\ \A i \in 1..Len(results) :
                results[i].similarity_score = Unit * Unit

C11_SelfSimilarity ==
    \A id \in Ids, v \in GoodVecs, k \in Limits, t \in Thresholds :
        LET r == add_embedding(vdb, disk, id, v)
        IN r.ok => TopOrTied(search_similar(r.db, v, k, t), id, k)

----------------------------------------------------------------------------
(* A new VectorDatabase object on the store directory, after initialize() *)
Fresh(dk) == initialize(VectorDatabase(VectorsDir, Dimension), dk)

(* C12: loading is all-or-nothing over the two files: when exactly one of  *)
(* the index file and the id-to-slot map file exists, initialize() returns *)
(* False.                                                                  *)
C12_LoadAllOrNothing ==
    (disk[VectorsDir].index_file.exists # disk[VectorsDir].metadata_file.exists)
    => ~Fresh(disk).ok

----------------------------------------------------------------------------
(* C13: persistence round trip.  In every state reached by                 *)
(* add_embeddings_batch and delete_embedding calls, a new VectorDatabase   *)
(* on the same directory returns after initialize(), for every query,      *)
(* limit and threshold, the same (embedding_id, score) sequence as the     *)
(* loaded instance that persisted the state.                               *)
C13_PersistenceRoundTrip ==
    vdb.is_loaded
    => \A q \in Queries, k \in Limits, t \in Thresholds :
          Hits(search_similar(Fresh(disk).db, q, k, t))
             = Hits(search_similar(vdb, q, k, t))

(* A loaded instance that has added and deleted, with a search that found  *)
(* something, over files written by this instance.                         *)
C13_Witness ==
    /\ vdb.is_loaded
    /\ tomb # {}
    /\ disk[VectorsDir].index_file.exists
    /\ ret.op = "search_similar"
    /\ Len(ret.val) > 0

----------------------------------------------------------------------------
(* C14: the two files are written atomically as a pair: after a crash      *)
(* during the persistence write of add_embeddings_batch the files are      *)
(* both the old pair or both the new pair.                                 *)
C14_PairWrittenAtomically ==
    ret.op = "crash" => disk[VectorsDir] \in {ret.old, ret.new}

----------------------------------------------------------------------------
(* The embedding ids an ingestion of content under file_id stores *)
StoredIds(file_id, content) ==
    {EmbeddingId(file_id, i - 1) :
        i \in {j \in 1..Len(content) : Len(content[j]) = Dimension}}

(* The persisted pair was written by one save: the map's slots are exactly *)
(* the rows of the index file.                                             *)
PairConsistent(dk) ==
    LET md == dk[VectorsDir].metadata_file.content
        index == dk[VectorsDir].index_file.content
    IN /\ dk[VectorsDir].metadata_file.exists = dk[VectorsDir].index_file.exists
       /\ {md[i].index_id : i \in 1..Len(md)} = 0..(ntotal(index) - 1)
       /\ Len(md) = ntotal(index)

----------------------------------------------------------------------------
(* C16: when generating the query embedding fails (None or an empty        *)
(* vector, or an exception), semantic_search answers with an error and no  *)
(* results, and the answer does not depend on the vector store or the      *)
(* tables: neither is consulted.                                           *)
C16_EmbeddingFailureAborts ==
    \A q \in Queries \cup {None}, raises \in BOOLEAN, k \in Limits, t \in Thresholds :
        (raises \/ q = None)
        => LET r == semantic_search(disk, files, chunks, q, raises, k, t, NoFilters, {})
           IN /\ ~r.success
              /\ r.results = <<>>
              /\ r = semantic_search([d \in Dirs |-> EmptyDir], {}, {}, q, raises, k, t,
                                       NoFilters, {})

(* A search whose embedding generation failed, over a store and tables     *)
(* that hold an ingested file.                                             *)
C16_Witness ==
    /\ ret.op = "semantic_search"
    /\ ret.response.error_code \in {"EMBEDDING_GENERATION_FAILED", "INTERNAL_ERROR"}
    /\ PersistedIds(disk) # {}
    /\ \E c \in chunks : c.file_id \in files /\ c.embedding_id \in PersistedIds(disk)

----------------------------------------------------------------------------
(* The chunker has returned *)
Returned == ret.op = "split_text_into_chunks_improved"

(* The stripped sentences of a text *)
SourceSentences(text) ==
    LET sentences == SentenceLoop(text, 1, <<>>, <<>>)
    IN {sentences[i] : i \in 1..Len(sentences)}

(* C17: every chunk has length <= max_length, except a chunk that is       *)
(* exactly one source sentence which alone is longer than max_length.      *)
C17_ChunkLengthBound ==
    Returned
    => \A i \in 1..Len(ret.chunks) :
          \/ Len(ret.chunks[i]) <= ret.max_length
          \/ ret.chunks[i] \in SourceSentences(ret.text)

(* A text split into several chunks, one of them a sentence longer than    *)
(* max_length and one of them merged from two sentences.                   *)
C17_Witness ==
    /\ Returned
    /\ Len(ret.chunks) >= 2
    /\ \E i \in 1..Len(ret.chunks) : Len(ret.chunks[i]) > ret.max_length
    /\ \E i \in 1..Len(ret.chunks) : ret.chunks[i] \notin SourceSentences(ret.text)

(* A chunk in which every character is whitespace (the empty chunk too) *)
Blank(chunk) == \A i \in 1..Len(chunk) : chunk[i] \in Whitespace

(* C18: no returned chunk is empty or whitespace-only (also for a          *)
(* whitespace-only text no longer than max_length), and the empty text     *)
(* gives the empty sequence.                                               *)
C18_NoBlankChunk ==
    Returned
    => /\ \A i \in 1..Len(ret.chunks) : ~Blank(ret.chunks[i])
       /\ ret.text = <<>> => ret.chunks = <<>>

RECURSIVE Concat(_)
Concat(seqs) == IF seqs = <<>> THEN <<>> ELSE Head(seqs) \o Concat(Tail(seqs))

RemoveWhitespace(str) == SelectSeq(str, LAMBDA c : c \notin Whitespace)

(* C19: the chunks concatenated in order, whitespace removed, are the text *)
(* with whitespace removed.                                                *)
C19_ContentPreserved ==
    Returned => RemoveWhitespace(Concat(ret.chunks)) = RemoveWhitespace(ret.text)

(* A text split into several chunks whose whitespace was stripped. *)
C19_Witness ==
    /\ Returned
    /\ Len(ret.chunks) >= 2
    /\ Concat(ret.chunks) # ret.text
    /\ RemoveWhitespace(ret.text) # <<>>
(* The chunk_index values of the rows of a file *)
ChunkIndexes(cs, file_id) == {c.chunk_index : c \in {o \in cs : o.file_id = file_id}}

(* C20: in every reachable state of the metadata store the chunk_index     *)
(* values of the chunks of each file are exactly 0..n-1, no gap, no two    *)
(* chunks of a file with the same index.                                   *)
C20_ChunkIndexContiguous ==
    \A f \in FileIds :
        LET rows == {c \in chunks : c.file_id = f}
        IN /\ ChunkIndexes(chunks, f) = 0..(Cardinality(rows) - 1)
           /\ \A c1, c2 \in rows : c1.chunk_index = c2.chunk_index => c1 = c2

(* C25: delete_embedding(id) is a logical delete: it returns True exactly  *)
(* when id had a live mapping, removes only that mapping, leaves the       *)
(* number of physical vectors and every other id's slot as they were, and  *)
(* never rebuilds; a second delete_embedding(id) returns False and changes *)
(* nothing.                                                                *)
C25_LogicalDeleteOnly ==
    \A id \in Ids :
        LET r == delete_embedding(vdb, disk, id)
            again == delete_embedding(r.db, r.disk, id)
        IN /\ r.ok = (id \in MetaIds(vdb.metadata))
           /\ r.db.index = vdb.index
           /\ MetaIds(r.db.metadata) = MetaIds(vdb.metadata) \ {id}
           /\ \A o \in MetaIds(r.db.metadata) :
                 MetaGet(r.db.metadata, o) = MetaGet(vdb.metadata, o)
           /\ ~r.ok => r.db = vdb /\ r.disk = disk
           /\ ~again.ok /\ again.db = r.db /\ again.disk = r.disk

(* An id was deleted while another id is live and the index holds at       *)
(* least two vectors.                                                      *)
C25_Witness ==
    /\ ret.op = "delete_embedding" /\ ret.val
    /\ tomb # {}
    /\ MetaIds(vdb.metadata) # {}
    /\ ntotal(vdb.index) >= 2

(* C28: in every reachable state of the loaded instance every live id's    *)
(* index_id is smaller than index.ntotal, and the row in that slot is the  *)
(* normalized vector most recently added under that id.                    *)
C28_LiveSlotHoldsLastVector ==
    vdb.is_loaded
    => \A i \in 1..Len(vdb.metadata) :
          /\ vdb.metadata[i].index_id < ntotal(vdb.index)
          /\ vdb.index.vectors[vdb.metadata[i].index_id + 1]
                = added[vdb.metadata[i].embedding_id]

(* C29: the persisted id-to-slot map never references a slot that is       *)
(* absent from the persisted index file: every persisted index_id is       *)
(* smaller than the persisted index's vector count.                        *)
C29_PersistedMapWithinPersistedIndex ==
    LET md == disk[VectorsDir].metadata_file.content
        index == disk[VectorsDir].index_file.content
    IN disk[VectorsDir].metadata_file.exists
       => \A i \in 1..Len(md) : md[i].index_id < ntotal(index)

(* The embedding ids process_file_embeddings gives to the chunks of a file *)
FileEmbeddingIds(file_id) == {EmbeddingId(file_id, i) : i \in 0..(MaxChunks - 1)}

(* C30: delete_embeddings_by_file(file_id) removes every embedding of the  *)
(* file: afterwards no embedding id that process_file_embeddings added for *)
(* file_id is live, and the returned count is the number of embeddings     *)
(* that were live for file_id before the call.                             *)
C30_DeleteByFileRemovesAll ==
    \A f \in FileIds :
        LET vector_db == Fresh(disk).db
            r == delete_embeddings_by_file(vector_db, disk, f)
        IN /\ MetaIds(r.db.metadata) \cap FileEmbeddingIds(f) = {}
           /\ PersistedIds(r.disk) \cap FileEmbeddingIds(f) = {}
           /\ r.deleted_count
                = Cardinality(MetaIds(vector_db.metadata) \cap FileEmbeddingIds(f))

(* C27: in every state after initialize() succeeded the backing index's    *)
(* dimension is the instance's configured dimension, so a vector that      *)
(* passes the length check of add_embedding is accepted by the index.      *)
C27_IndexDimensionFixed ==
    vdb.is_loaded
    => /\ vdb.index.d = vdb.dimension
       /\ \A id \in Ids, v \in InputVecs :
             Len(v) = vdb.dimension => add_embedding(vdb, disk, id, v).ok

----------------------------------------------------------------------------
(* The candidates the vector search gives for 2 x limit *)
Candidates(q, limit, t) == search_similar(Fresh(disk).db, q, limit * 2, t)

(* The candidate resolves to a chunk row whose file row exists and passes  *)
(* the filters.                                                            *)
Survives(candidate, filters) ==
    \E c \in chunks : /\ c.embedding_id = candidate.embedding_id
                      /\ c.file_id \in files
                      /\ PassesFilters(FileData[c.file_id], filters)

Survivors(q, limit, t, filters) ==
    SelectSeq(Candidates(q, limit, t), LAMBDA candidate : Survives(candidate, filters))

(* C22: the response holds min(limit, number of over-fetched candidates    *)
(* that survive Joining and the filters) results, the first survivors in   *)
(* the order of the index's score, descending: a candidate ranked after    *)
(* position limit is returned whenever an earlier one was dropped.         *)
C22_OverFetchCompensates ==
    \A q \in SearchQueries, k \in Limits, t \in Thresholds, filters \in Filters :
        LET r == semantic_search(disk, files, chunks, q, FALSE, k, t, filters, {})
            survivors == Survivors(q, k, t, filters)
        IN /\ r.success
           /\ Len(r.results) = Min(k, Len(survivors))
           /\ \A i \in 1..Len(r.results) :
                 /\ i <= Len(survivors)
                     => /\ r.results[i].chunk_id = survivors[i].embedding_id
                        /\ r.results[i].similarity_score = survivors[i].similarity_score
                 /\ i > 1 => r.results[i - 1].similarity_score
                                >= r.results[i].similarity_score

(* The positions of the considered candidates, similar_results[:limit],    *)
(* that are kept.                                                          *)
Kept(candidates, limit, filters, raising) ==
    {i \in 1..Min(limit, Len(candidates)) :
        i \notin raising /\ Survives(candidates[i], filters)}

(* The n-th smallest member of a set of positions *)
Nth(positions, n) ==
    CHOOSE i \in positions : Cardinality({h \in positions : h < i}) = n - 1

(* C23: the results are exactly the considered candidates whose embedding  *)
(* id resolves to a chunk, whose chunk's file resolves and whose file      *)
(* satisfies every supplied filter; a candidate with no chunk or no file,  *)
(* or whose processing raises, is skipped and the response is a success.   *)
C23_JoinKeepsExactlyResolved ==
    \A q \in Queries, k \in Limits, t \in Thresholds, filters \in Filters,
       raising \in RaisingSets :
        LET r == semantic_search(disk, files, chunks, q, FALSE, k, t, filters, raising)
            candidates == Candidates(q, k, t)
            kept == Kept(candidates, k, filters, raising)
        IN /\ r.success
           /\ Len(r.results) = Cardinality(kept)
           /\ \A n \in 1..Len(r.results) :
                 LET candidate == candidates[Nth(kept, n)]
                 IN /\ r.results[n].similarity_score = candidate.similarity_score
                    /\ \E c \in chunks :
                          /\ c.embedding_id = candidate.embedding_id
                          /\ r.results[n].chunk_id = c.chunk_id
                          /\ r.results[n].file_id = c.file_id
                          /\ r.results[n].chunk_index = c.chunk_index

(* A search answered with results while the stores have drifted: an        *)
(* embedding without chunk row and a chunk whose file row is missing.      *)
C23_Witness ==
    /\ ret.op = "semantic_search"
    /\ ret.response.success
    /\ Len(ret.response.results) >= 1
    /\ \E id \in PersistedIds(disk) : \A c \in chunks : c.embedding_id # id
    /\ \E c \in chunks : c.file_id \notin files /\ c.embedding_id \in PersistedIds(disk)

(* The text is a preview of the content: the content itself when it is no  *)
(* longer than the preview length, else a text that starts with its first  *)
(* PreviewLen characters and is not the whole content.                     *)
IsPreviewOf(text, content) ==
    IF Len(content) <= PreviewLen THEN text = content
    ELSE /\ Len(text) >= PreviewLen
         /\ SubSeq(text, 1, PreviewLen) = SubSeq(content, 1, PreviewLen)
         /\ text # content

(* The key of a context is present exactly when the file of the result has *)
(* a chunk at the index, and then it is the preview of that chunk and of   *)
(* no other chunk.                                                         *)
StitchedFrom(key, file_id, index) ==
    LET rows == {c \in chunks : c.file_id = file_id /\ c.chunk_index = index}
    IN /\ (key # <<>>) = (index >= 0 /\ rows # {})
       /\ key # <<>>
           => /\ Len(key) = 1
              /\ \A c \in chunks : IsPreviewOf(key[1], c.content) <=> c \in rows

(* C24: for every result of semantic_search with chunk index i in file F,  *)
(* context.prev_chunk is present exactly when i > 0 and F has a chunk with *)
(* index i-1, context.next_chunk exactly when F has a chunk with index     *)
(* i+1; each is the preview of that neighbour's content, never text of a   *)
(* chunk of another file or of another index.                              *)
C24_ContextIsAdjacentChunk ==
    ret.op = "semantic_search"
    => \A n \in 1..Len(ret.response.results) :
          LET result == ret.response.results[n]
          IN /\ StitchedFrom(result.context.prev_chunk, result.file_id,
                              result.chunk_index - 1)
             /\ StitchedFrom(result.context.next_chunk, result.file_id,
                              result.chunk_index + 1)

(* A response with a result that has its previous chunk and a result that *)
(* has its next chunk.                                                     *)
C24_Witness ==
    /\ ret.op = "semantic_search"
    /\ \E n \in 1..Len(ret.response.results) :
          ret.response.results[n].context.prev_chunk # <<>>
    /\ \E n \in 1..Len(ret.response.results) :
          ret.response.results[n].context.next_chunk # <<>>

(* The live embeddings of the vector store whose id is the embedding id *)
LiveEmbeddings(embedding_id) ==
    LET md == Fresh(disk).db.metadata
    IN {i \in 1..Len(md) : md[i].embedding_id = embedding_id}

(* C21: every chunk of a file whose record has processed = true has        *)
(* exactly one live embedding in the vector store whose embedding id is    *)
(* the chunk's embedding_id, and no chunk has more than one.               *)
C21_ProcessedChunkHasOneEmbedding ==
    \A c \in chunks :
        /\ Cardinality(LiveEmbeddings(c.embedding_id)) <= 1
        /\ Processed(files, c.file_id)
            => Cardinality(LiveEmbeddings(c.embedding_id)) = 1

(* The logical state of a file after an uninterrupted run: one chunk row   *)
(* per chunk index, and one live embedding id per embedded chunk, mapped   *)
(* to a slot that holds the chunk's vector.                                *)
IngestedOnce(dk, cs, file_id, content) ==
    LET md == dk[VectorsDir].metadata_file.content
        index == dk[VectorsDir].index_file.content
    IN /\ {c \in cs : c.file_id = file_id} = ChunksData(file_id, content)
       /\ \A i \in 1..Len(content) :
             LET at == {p \in 1..Len(md) : md[p].embedding_id = EmbeddingId(file_id, i - 1)}
             IN IF Len(content[i]) = Dimension
                THEN /\ Cardinality(at) = 1
                     /\ \A p \in at :
                           /\ md[p].index_id < ntotal(index)
                           /\ index.vectors[md[p].index_id + 1] = Normalized[content[i]]
                ELSE at = {}

(* C26: running process_file_embeddings again with the same file_id and    *)
(* content, after an earlier run that was abandoned at any step or         *)
(* completed, ends in the logical state of one uninterrupted run.          *)
C26_IngestionResumable ==
    \A f \in FileIds :
        LET r == process_file_embeddings(disk, chunks, f, FileContent[f], {})
        IN IngestedOnce(r.disk, r.chunks, f, FileContent[f])

(* A run completed for a file of which an earlier run had left a vector in *)
(* the index: the index holds the chunk's vector in two slots.             *)
C26_Witness ==
    /\ ret.op = "process_file_embeddings"
    /\ IngestedOnce(disk, chunks, ret.file_id, FileContent[ret.file_id])
    /\ LET index == disk[VectorsDir].index_file.content
       IN Cardinality({p \in 1..ntotal(index) :
                         index.vectors[p] = Normalized[FileContent[ret.file_id][1]]}) >= 2

====
